---- MODULE Spec2Model ----
(***************************************************************************)
(* Model of dopamine/discrete_domains/gym_lib.py:                          *)
(*   - DoubleRoomWindyGridWorldEnv (reset / step transition dynamics),     *)
(*   - GymPreprocessing wrapped around that environment,                   *)
(*   - FourierBasis construction and FourierDQNNetwork's lazy              *)
(*     initialisation of its feature generator.                            *)
(* The numeric tensor work (cosines, dense layers) is outside the model;   *)
(* only the state the classes keep and the integer algorithms are here.    *)
(***************************************************************************)
EXTENDS Integers, Sequences, FiniteSets, TLC

VARIABLES
  x, y,              \* DoubleRoomWindyGridWorldEnv.x / .y (NoAttr before the first reset)
  last_position,     \* local last_position of the most recent step (<<>> if none)
  action,            \* argument of the most recent step (NoAttr if none)
  real_action,       \* action actually applied by the most recent step
  slip,              \* the most recent step took the random-action branch
  ret,               \* what the environment returned last (<<>> / <<obs, reward, done>>)
  assert_failed,     \* the assertion at the end of step has failed at least once
  game_over,         \* GymPreprocessing.game_over
  wret,              \* what the wrapper returned last
  last_op,           \* "init", "reset" or "step"
  step_done,         \* done flag of the most recent environment step (FALSE if none)
  via_door,          \* the door cell was occupied since the last reset
  no_slip,           \* no step since the last reset took the random-action branch
  min_vals, max_vals,     \* FourierDQNNetwork.min_vals / .max_vals
  fourier_basis_order,    \* FourierDQNNetwork.fourier_basis_order
  feature_generator,      \* <<>> while the attribute does not exist, else <<basis>>
  calls,                  \* number of call invocations so far (capped)
  first_width,            \* input width of the first call (NoAttr if none)
  call_width,             \* input width of the most recent call
  call_out,               \* outcome of the most recent call
  basis,                  \* a FourierBasis constructed directly (<<>> if none)
  basis_nvars             \* the nvars that basis was constructed with

gridvars == <<x, y, last_position, action, real_action, slip, ret, assert_failed,
              game_over, wret, last_op, step_done, via_door, no_slip>>
netvars == <<min_vals, max_vals, fourier_basis_order, feature_generator, calls,
             first_width, call_width, call_out, basis, basis_nvars>>
vars == <<gridvars, netvars>>

\* ---- bounds ----
MaxOrder == 2
MaxWidth == 3
MaxCalls == 3

NoAttr == -1

\* ======================= DoubleRoomWindyGridWorldEnv =======================

width == 5 * 2 + 1
height == 14
Actions == 0..3

\* moves with right and left exchanged
moves_Mirrored ==
  [a \in 0..3 |->
     CASE a = 0 -> <<-1, 0>>
       [] a = 1 -> <<0, -1>>
       [] a = 2 -> <<1, 0>>
       [] a = 3 -> <<0, 1>>]

moves ==
  [a \in Actions |->
     CASE a = 0 -> <<-1, 0>>
       [] a = 1 -> <<0, 1>>
       [] a = 2 -> <<1, 0>>
       [] a = 3 -> <<0, -1>>]

windy_columns == <<1, 2, 3, 4>>
windy_levels == <<1, 2, 2, 2>>
\* start_state in the top-left corner
start_state_Top == <<0, 0>>
start_state == <<height - 1, 0>>
goal_state == <<height - 1, width - 1>>
door_y == (width - 1) \div 2
\* wall_xs without the remove(3): the wall has no door
wall_xs_All == 0..(height - 1)
wall_xs == (0..(height - 1)) \ {3}

\* np.clip
Clip(v, lo, hi) == IF v < lo THEN lo ELSE IF v > hi THEN hi ELSE v

\* list.index on a list holding the value
Index(s, v) == CHOOSE i \in 1..Len(s) : s[i] = v
InList(s, v) == \E i \in 1..Len(s) : s[i] = v

\* StepX with the wind applied only to up / down actions
StepX_NoWindOnSide(px, py, a) ==
  LET move_x == moves[a][1]
      blown == IF InList(windy_columns, py) /\ move_x # 0
                 THEN px - windy_levels[Index(windy_columns, py)]
                 ELSE px
      next_x == IF py = door_y THEN blown ELSE blown + move_x
  IN Clip(next_x, 0, height - 1)

\* Row after a step from (px, py) applying action a.
StepX(px, py, a) ==
  LET move_x == moves[a][1]
      blown == IF InList(windy_columns, py)
                 THEN px - windy_levels[Index(windy_columns, py)]
                 ELSE px
      next_x == IF py = door_y THEN blown ELSE blown + move_x
  IN Clip(next_x, 0, height - 1)

\* StepY without the wall test: the door column is entered from any row
StepY_NoWall(nx, py, a) ==
  LET move_y == moves[a][2]
      next_y == py + move_y
  IN Clip(next_y, 0, width - 1)

\* StepY with the wall test inverted: the door column is entered from wall rows only
StepY_Inverted(nx, py, a) ==
  LET move_y == moves[a][2]
      next_y == IF py + move_y = door_y
                  THEN (IF nx \in wall_xs THEN door_y ELSE py)
                  ELSE py + move_y
  IN Clip(next_y, 0, width - 1)

\* Column after a step from column py, nx being the row already updated.
StepY(nx, py, a) ==
  LET move_y == moves[a][2]
      next_y == IF py + move_y = door_y
                  THEN (IF nx \in wall_xs THEN py ELSE door_y)
                  ELSE py + move_y
  IN Clip(next_y, 0, width - 1)

\* StepRet testing the goal on the row only
StepRet_RowOnly(nx, ny) ==
  LET next_state == <<nx, ny>>
      reward == IF nx = goal_state[1] THEN 1 ELSE 0
      done == nx = goal_state[1]
  IN <<next_state, reward, done>>

\* Return value of step for the new position.
StepRet(nx, ny) ==
  LET next_state == <<nx, ny>>
      reward == IF next_state = goal_state THEN 1 ELSE 0
      done == next_state = goal_state
  IN <<next_state, reward, done>>

\* Return value of reset.
ResetRet == <<start_state, 0, FALSE>>

\* ============================ GymPreprocessing =============================

\* game_over that is never cleared once set
RecordGameOver_Sticky(old, env_done) == old \/ env_done

\* game_over after the wrapper's step, given the environment's done flag.
RecordGameOver(old, env_done) == env_done

\* What the wrapper hands back for an environment result.
Forward(env_ret) == env_ret

\* wrapper.reset() -> environment.reset()
Reset ==
  /\ x' = start_state[1]
  /\ y' = start_state[2]
  /\ ret' = ResetRet
  /\ wret' = Forward(ret')
  /\ last_op' = "reset"
  /\ via_door' = FALSE
  /\ no_slip' = TRUE
  /\ UNCHANGED <<last_position, action, real_action, slip, assert_failed,
                 game_over, step_done>>
  /\ UNCHANGED netvars

\* wrapper.step(a) -> environment.step(a); the random-action branch is taken
\* or not (sl), and draws r when taken.  Before the first reset the
\* environment has no x / y and step raises without changing anything.
Step(a, sl, r) ==
  /\ x # NoAttr
  /\ LET ra == IF sl THEN r ELSE a
         nx == StepX(x, y, ra)
         ny == StepY(nx, y, ra)
         ok == ~(nx \in wall_xs /\ ny = door_y)
     IN /\ x' = nx
        /\ y' = ny
        /\ last_position' = <<x, y>>
        /\ action' = a
        /\ real_action' = ra
        /\ slip' = sl
        /\ last_op' = "step"
        /\ via_door' = (via_door \/ <<nx, ny>> = <<3, door_y>>)
        /\ no_slip' = (no_slip /\ ~sl)
        /\ IF ok
             THEN /\ ret' = StepRet(nx, ny)
                  /\ step_done' = ret'[3]
                  /\ game_over' = RecordGameOver(game_over, ret'[3])
                  /\ wret' = Forward(ret')
                  /\ UNCHANGED assert_failed
             ELSE /\ assert_failed' = TRUE
                  /\ UNCHANGED <<ret, step_done, game_over, wret>>
  /\ UNCHANGED netvars

InitGrid ==
  /\ x = NoAttr
  /\ y = NoAttr
  /\ last_position = <<>>
  /\ action = NoAttr
  /\ real_action = NoAttr
  /\ slip = FALSE
  /\ ret = <<>>
  /\ assert_failed = FALSE
  /\ game_over = FALSE
  /\ wret = <<>>
  /\ last_op = "init"
  /\ step_done = FALSE
  /\ via_door = FALSE
  /\ no_slip = TRUE

\* ============================== FourierBasis ===============================

\* itertools.product(range(n), repeat=k) as a list, last position fastest.
RECURSIVE Product(_, _)
Product(n, k) ==
  IF k = 0
    THEN << <<>> >>
    ELSE LET rest == Product(n, k - 1)
             m == Len(rest)
         IN [i \in 1..(n * m) |-> <<(i - 1) \div m>> \o rest[((i - 1) % m) + 1]]

\* Multipliers without the [1:]: the bias term is kept
Multipliers_KeepBias(nvars, order) == Product(order + 1, nvars)

\* [...][1:] of the list of terms
Multipliers(nvars, order) ==
  LET terms == Product(order + 1, nvars)
  IN SubSeq(terms, 2, Len(terms))

\* FourierBasis.__init__
FourierBasis(nvars, mn, mx, order) ==
  [order |-> order, min_vals |-> mn, max_vals |-> mx,
   multipliers |-> Multipliers(nvars, order)]

\* FourierBasis(nvars, order=order) with the default min_vals / max_vals
NewFourierBasis(nvars, order) ==
  /\ basis' = <<FourierBasis(nvars, "0", "None", order)>>
  /\ basis_nvars' = nvars
  /\ UNCHANGED <<min_vals, max_vals, fourier_basis_order, feature_generator,
                 calls, first_width, call_width, call_out>>
  /\ UNCHANGED gridvars

\* ============================ FourierDQNNetwork ============================

\* call without the hasattr test: the generator is rebuilt on every call
GeneratorAfterCall_Always(fg, w, mn, mx, order) ==
  <<FourierBasis(w, mn, mx, order)>>

\* The feature generator after the hasattr test of call, for input width w.
GeneratorAfterCall(fg, w, mn, mx, order) ==
  IF fg = <<>> THEN <<FourierBasis(w, mn, mx, order)>> ELSE fg

\* compute_features multiplies a [batch, w] tensor by the transposed
\* multiplier matrix, which needs rows of length w.
ComputeFeatures(fb, w) ==
  IF /\ Len(fb.multipliers) > 0
     /\ \A i \in 1..Len(fb.multipliers) : Len(fb.multipliers[i]) = w
    THEN "features"
    ELSE "shape_error"

\* FourierDQNNetwork.call on a state whose flattened width is w
Call(w) ==
  /\ feature_generator' =
       GeneratorAfterCall(feature_generator, w, min_vals, max_vals,
                          fourier_basis_order)
  /\ call_out' = ComputeFeatures(feature_generator'[1], w)
  /\ call_width' = w
  /\ first_width' = IF calls = 0 THEN w ELSE first_width
  /\ calls' = IF calls < MaxCalls THEN calls + 1 ELSE calls
  /\ UNCHANGED <<min_vals, max_vals, fourier_basis_order, basis, basis_nvars>>
  /\ UNCHANGED gridvars

\* A network that has not been called yet.
NetBuilt(d, order) ==
  /\ min_vals = d \o "_MIN_VALS"
  /\ max_vals = d \o "_MAX_VALS"
  /\ fourier_basis_order = order
  /\ feature_generator = <<>>
  /\ calls = 0
  /\ first_width = NoAttr
  /\ call_width = NoAttr
  /\ call_out = "none"
  /\ basis = <<>>
  /\ basis_nvars = NoAttr

\* CartpoleFourierDQNNetwork with the default order
InitNet == NetBuilt("CARTPOLE", 3)

\* FourierDQNNetwork built for either domain with a configured order
InitNetAny ==
  \E d \in {"CARTPOLE", "ACROBOT"}, order \in 0..MaxOrder : NetBuilt(d, order)

Init == InitGrid /\ InitNet

Next ==
  \/ Reset
  \/ \E a \in Actions, sl \in BOOLEAN, r \in Actions : Step(a, sl, r)

Spec == Init /\ [][Next]_vars

InitFourier == InitGrid /\ InitNetAny

NextFourier ==
  \/ \E w \in 1..MaxWidth : Call(w)
  \/ \E nvars \in 1..MaxWidth, order \in 0..MaxOrder : NewFourierBasis(nvars, order)

SpecFourier == InitFourier /\ [][NextFourier]_vars

\* ================================ Properties ===============================

\* The claims' own reading of the grid, written out in numbers.
RowDelta(a) == CASE a = 0 -> -1 [] a = 2 -> 1 [] OTHER -> 0
ColDelta(a) == CASE a = 1 -> 1 [] a = 3 -> -1 [] OTHER -> 0
WindOf(c) == CASE c = 1 -> 1 [] c \in {2, 3, 4} -> 2 [] OTHER -> 0

\* C1: once reset has run, after any sequence of steps (slipping or not) the
\* position satisfies 0 <= x <= 13 and 0 <= y <= 10 and is never a wall cell
\* (a row other than 3 in column 5), so the assertion of step never fails.
C1_InGridOffWall ==
  /\ ~assert_failed
  /\ x # NoAttr =>
       /\ 0 <= x /\ x <= 13
       /\ 0 <= y /\ y <= 10
       /\ ~(x # 3 /\ y = 5)

\* C1 witness: a step was refused at the wall (it tried to enter column 5 and
\* the agent stayed beside it), and the agent has stood in the door since reset.
C1_Witness ==
  /\ last_op = "step"
  /\ via_door
  /\ last_position[2] + ColDelta(real_action) = 5
  /\ ColDelta(real_action) # 0
  /\ y = last_position[2]

\* C2: reset, in whatever state it is called, puts the position on the start
\* cell (13, 0) and returns that cell with reward 0 and done = FALSE.
C2_ResetToStart ==
  last_op = "reset" =>
    /\ x = 13 /\ y = 0
    /\ ret = << <<13, 0>>, 0, FALSE >>

\* C2 witness: a reset in the middle of an episode, away from the start cell.
C2_Witness ==
  /\ last_op = "reset"
  /\ last_position # <<>>
  /\ ~step_done
  /\ x = 13 /\ y = 0

\* C3: a step returns the new position, and returns reward 1 with done = TRUE
\* exactly when that position is the goal cell (13, 10); otherwise reward 0
\* and done = FALSE.
C3_RewardIffGoal ==
  last_op = "step" =>
    /\ ret[1] = <<x, y>>
    /\ IF ret[1] = <<13, 10>>
         THEN ret[2] = 1 /\ ret[3] = TRUE
         ELSE ret[2] = 0 /\ ret[3] = FALSE

\* C3 witness: a step that ended on the goal cell from the row of the goal.
C3_Witness ==
  /\ last_op = "step"
  /\ ret[3] = TRUE
  /\ last_position = <<13, 9>>

\* C4: the row after a step is the row before it when the column was the door
\* column, and otherwise clip(row - wind(col) + row_delta(applied action), 0, 13),
\* the wind being applied for left / right actions and blocked column moves too.
C4_RowUpdate ==
  last_op = "step" =>
    LET px == last_position[1]
        py == last_position[2]
    IN x = IF py = 5
             THEN px
             ELSE Clip(px - WindOf(py) + RowDelta(real_action), 0, 13)

\* C4 witness: a right action from column 4 whose column move was blocked and
\* whose row was still blown up by two.
C4_Witness ==
  /\ last_op = "step"
  /\ real_action = 1
  /\ last_position = <<8, 4>>
  /\ x = 6 /\ y = 4

\* C5 as stated: a column move into column 5 is blocked when the row the agent
\* starts the step from is a wall row, and enters the door otherwise; any other
\* column move is applied and clamped to [0, 10].
C5_Original ==
  last_op = "step" =>
    LET px == last_position[1]
        py == last_position[2]
        my == ColDelta(real_action)
    IN IF my # 0 /\ py + my = 5
         THEN (IF px # 3 THEN y = py ELSE y = 5)
         ELSE y = Clip(py + my, 0, 10)

\* C5 amended: a column move into column 5 is blocked when the row the agent
\* has after this step's row update (wind and row delta applied, clipped) is a
\* wall row, and enters the door when that row is 3; any other column move is
\* applied and clamped to [0, 10].
C5_ColumnUpdate ==
  last_op = "step" =>
    LET py == last_position[2]
        my == ColDelta(real_action)
    IN IF my # 0 /\ py + my = 5
         THEN (IF x # 3 THEN y = py ELSE y = 5)
         ELSE y = Clip(py + my, 0, 10)

\* C5 witness: the agent entered the door from row 5 of column 4, the wind
\* having carried it to row 3 during the step.
C5_Witness ==
  /\ last_op = "step"
  /\ last_position = <<5, 4>>
  /\ real_action = 1
  /\ x = 3 /\ y = 5

\* C6: a step without slip from (13, 9) with action right, or from (12, 10)
\* with action down, ends on (13, 10) and returns reward 1 and done = TRUE.
C6_AdjacentToGoal ==
  (/\ last_op = "step"
   /\ ~slip
   /\ \/ last_position = <<13, 9>> /\ action = 1
      \/ last_position = <<12, 10>> /\ action = 2)
  => /\ x = 13 /\ y = 10
     /\ ret = << <<13, 10>>, 1, TRUE >>

\* C6 witness: the step down from (12, 10) without slip.
C6_Witness ==
  /\ last_op = "step"
  /\ ~slip
  /\ last_position = <<12, 10>>
  /\ action = 2

\* C7: game_over is FALSE after construction and always equals the done flag
\* the environment returned on the most recent step (reset leaves it alone),
\* and the wrapper returns what the environment returned.
C7_GameOverTracksStep ==
  /\ game_over = step_done
  /\ wret = ret
  /\ last_op = "init" => game_over = FALSE

\* C7 witness: a reset after a terminal step; game_over is still TRUE.
C7_Witness ==
  /\ last_op = "reset"
  /\ game_over = TRUE
  /\ ret[3] = FALSE

\* C8: the feature generator does not exist before the first call, is built
\* in the first call from that call's input width and the network's min_vals,
\* max_vals and order, and no later call builds it again or replaces it.
C8_BuiltFromFirstCall ==
  /\ calls = 0 => feature_generator = <<>>
  /\ calls > 0 =>
       /\ Len(feature_generator) = 1
       /\ LET fb == feature_generator[1]
          IN /\ fb.order = fourier_basis_order
             /\ fb.min_vals = min_vals
             /\ fb.max_vals = max_vals
             /\ Len(fb.multipliers) = (fourier_basis_order + 1) ^ first_width - 1
             /\ \A i \in 1..Len(fb.multipliers) : Len(fb.multipliers[i]) = first_width

C8_LazyInitOnce ==
  /\ []C8_BuiltFromFirstCall
  /\ [][feature_generator # <<>> => feature_generator' = feature_generator]_vars

\* C8 witness: a later call with another input width than the first call's,
\* on a network whose basis depends on the width.
C8_Witness ==
  /\ calls >= 2
  /\ call_width # first_width
  /\ fourier_basis_order > 0
  /\ Len(feature_generator) = 1

\* C9: the multiplier matrix of a FourierBasis built for nvars >= 1 and
\* order >= 0 has (order+1)^nvars - 1 rows, which are pairwise different and
\* are exactly the vectors of {0..order}^nvars other than the all-zero vector.
C9_MultiplierRows ==
  basis # <<>> =>
    LET m == basis[1].multipliers
        order == basis[1].order
        zero == [i \in 1..basis_nvars |-> 0]
    IN /\ Len(m) = (order + 1) ^ basis_nvars - 1
       /\ \A i, j \in 1..Len(m) : i # j => m[i] # m[j]
       /\ {m[i] : i \in 1..Len(m)} = [1..basis_nvars -> 0..order] \ {zero}
       /\ \A i \in 1..Len(m) : m[i] # zero

\* C9 witness: a basis of order 2 over 2 variables (8 rows).
C9_Witness ==
  /\ basis # <<>>
  /\ basis_nvars = 2
  /\ basis[1].order = 2
  /\ Len(basis[1].multipliers) = 8

\* The cell a step without slip leads to.
NoSlipStep(p, a) ==
  LET nx == StepX(p[1], p[2], a)
  IN <<nx, StepY(nx, p[2], a)>>

\* The cells that steps without slip lead to from the cells of frontier.
RECURSIVE NoSlipReach(_, _)
NoSlipReach(seen, frontier) ==
  LET new == {NoSlipStep(p, a) : p \in frontier, a \in 0..3} \ seen
  IN IF new = {} THEN seen ELSE NoSlipReach(seen \cup new, new)

\* C10: from the cell reset leaves the agent on, steps without slip lead to the
\* door cell (3, 5), and from the door cell on to a step that returns
\* done = TRUE: the right-hand room is not sealed off.
C10_GoalReachable ==
  last_op = "reset" =>
    LET door == <<3, 5>>
    IN /\ door \in NoSlipReach({<<x, y>>}, {<<x, y>>})
       /\ \E p \in NoSlipReach({door}, {door}), a \in 0..3 :
            LET q == NoSlipStep(p, a) IN StepRet(q[1], q[2])[3] = TRUE

\* C10 witness: an episode without any slip that stood in the door and whose
\* last step returned done = TRUE.
C10_Witness ==
  /\ last_op = "step"
  /\ no_slip
  /\ via_door
  /\ ret[3] = TRUE
  /\ x = 13 /\ y = 10

====
